---- MODULE Spec2Model ----
(***************************************************************************)
(* Device session and protocol engine of the Profter heater integration    *)
(* (custom_components/profter_heater): ProfterHeaterBLE in ble.py and its   *)
(* callers in coordinator.py and __init__.py.                               *)
(*                                                                         *)
(* Time is counted in ticks of 50 ms, so that every timeout of the source   *)
(* is a whole number (0.15 s = 3, 0.9 s = 18, 6.0 s = 120). The source      *)
(* stores instants of the event loop's clock and only ever uses them in     *)
(* differences from self._now() or in comparisons with each other, so the   *)
(* model stores each instant as the time gone by since it (how long "ago"   *)
(* it was, as _ago in poll_status computes it) and lets every such age grow *)
(* as time passes, up to Horizon, beyond which no comparison of the source  *)
(* can tell two ages apart.                                                 *)
(* Optional[...] values are sequences of length at most one: <<>> is None,  *)
(* <<v>> is the value v. An instant that was never set is the number None.  *)
(*                                                                         *)
(* asyncio runs one coroutine at a time and switches only at an await that  *)
(* suspends. The labels in YieldPcs are those awaits; a process at any      *)
(* other label is in the middle of synchronous code and runs alone.         *)
(***************************************************************************)
EXTENDS Integers, Sequences, FiniteSets, TLC

(* ------------------------------ bounds --------------------------------- *)
MaxHandles == 3      \* links the transport can establish in one run
Budget     == 3      \* calls started plus environment events in one run
SlowIo     == 40     \* duration of a slow connect, in ticks
WatchdogThreshold == 1   \* the N of "N consecutive poll exhaustions"

(* ------------------------- program constants --------------------------- *)
None == -1                       \* a timestamp that was never set
NoClient == 0                    \* self._client is None
NO_NOTIFY_RECONNECT_SEC == 500   \* 25.0 s
IDLE_AFTER_OFF_CONFIRM_SEC == 80 \* 4.0 s
IDLE_NOTIFY_FAST_RETURN_SEC == 20 \* 1.0 s
OP_TIMEOUT == 120                \* timeout=6.0 of both callers
WAIT_DEVICE_TIMEOUT == 200       \* _wait_ble_device(timeout=10.0)
WAIT_DEVICE_SLEEP == 10          \* asyncio.sleep(0.5)
TRY_WAIT == 18                   \* min(0.9, left)
POLL_BUDGET == 36                \* min(1.8, remaining)
SET_BUDGET == 24                 \* min(1.2, remaining)
POLL_ATTEMPTS == 3               \* range(1, 4)
PAUSE == 3                       \* asyncio.sleep(0.15)
SETTLE == 5                      \* asyncio.sleep(0.25)
FRAME52 == 52                    \* length of a status frame
FRAME8 == 8                      \* length of an idle frame
MIN_EFFECTIVE_POLL_SECONDS == 300 \* 15 s between two BLE polls
DEFAULT_POLL_INTERVAL == 200     \* 10 s between two scheduler ticks

Min(a, b) == IF a <= b THEN a ELSE b
Max(a, b) == IF a >= b THEN a ELSE b

(* ----------------------------- frame codec ----------------------------- *)
\* p[i] of the source is Byte(p, i): Python indexes from 0
Byte(p, i) == p[i + 1]

_s16le(p, off) ==
  LET u == Byte(p, off) + 256 * Byte(p, off + 1)
  IN  IF u >= 32768 THEN u - 65536 ELSE u

\* the scan of parse_onoff_from_status52 from index i on
RECURSIVE ScanOnOff(_, _)
ScanOnOff(p, i) ==
  IF i >= Len(p) - 6 THEN <<>>
  ELSE IF Byte(p, i) = 165 /\ Byte(p, i + 1) = 5
       THEN IF Byte(p, i + 4) = 1 /\ Byte(p, i + 5) = 115 THEN <<TRUE>>
            ELSE IF Byte(p, i + 4) = 2 /\ Byte(p, i + 5) = 239 THEN <<FALSE>>
            ELSE ScanOnOff(p, i + 1)
       ELSE ScanOnOff(p, i + 1)

parse_onoff_from_status52(p) ==
  IF Len(p) # FRAME52 THEN <<>> ELSE ScanOnOff(p, 0)

\* temperatures are kept in tenths of a degree (the source divides by 10.0)
\* the room range one tenth too wide
RoomInRangeMut(room) == -400 <= room /\ room <= 801
RoomInRange(room) == -400 <= room /\ room <= 800
HeaterInRange(heater) == -400 <= heater /\ heater <= 2500

parse_temps_best_effort(p) ==
  IF Len(p) # FRAME52 THEN << <<>>, <<>> >>
  ELSE LET room == _s16le(p, 14)
           heater == _s16le(p, 16)
       IN  << IF RoomInRange(room) THEN <<room>> ELSE <<>>,
              IF HeaterInRange(heater) THEN <<heater>> ELSE <<>> >>

\* Parsed(): the dataclass has exactly these four fields
Parsed == [is_on |-> <<>>, room_c |-> <<>>, heater_c |-> <<>>, raw52 |-> <<>>]

\* the three assignments of _parse_52 to the fields of self._last
_parse_52(b) ==
  [raw52 |-> b,
   is_on |-> parse_onoff_from_status52(b),
   room_c |-> parse_temps_best_effort(b)[1],
   heater_c |-> parse_temps_best_effort(b)[2]]

(* ----------------------- what the device may send ---------------------- *)
\* a status frame with the sync marker at index 40, the flag pair b1, b2 and
\* the two raw temperatures (unsigned 16-bit, little endian at 14 and 16)
MkFrame(b1, b2, room, heater) ==
  [i \in 1..FRAME52 |->
     CASE i = 15 -> room % 256
       [] i = 16 -> room \div 256
       [] i = 17 -> heater % 256
       [] i = 18 -> heater \div 256
       [] i = 41 -> 165
       [] i = 42 -> 5
       [] i = 45 -> b1
       [] i = 46 -> b2
       [] OTHER -> 0]

FrameOn  == MkFrame(1, 115, 202, 800)     \* on, 20.2 C, 80.0 C
FrameOff == MkFrame(2, 239, 65136, 2600)  \* off, -40.0 C, heater out of range
FrameAmb == MkFrame(6, 30, 900, 0)        \* unknown pair, room out of range
Idle8    == [i \in 1..FRAME8 |-> 0]

StatusFrames == {FrameOn, FrameOff, FrameAmb}
Payloads == StatusFrames \cup {Idle8}


(* ------------------------------- state --------------------------------- *)
Tasks == {"poll", "cmd"}          \* callers of poll_status and of set_on
Procs == Tasks \cup {"shutdown"}  \* plus async_unload_entry
Handles == 1..MaxHandles

VARIABLES
  client,        \* self._client: a handle or NoClient
  lock,          \* owner of self._lock, or "none"
  waiters,       \* coroutines queued on self._lock, first come first
  last,          \* self._last
  evt_52,        \* self._evt_52
  notify_count,  \* self._notify_count
  last_notify_len, \* self._last_notify_len
  ago_any,       \* self._now() - self._last_any_notify_ts, None if never set
  ago_52,        \* self._now() - self._last_52_ts, None if never set
  ago_8,         \* self._now() - self._last_8_ts, None if never set
  hstate,        \* per link: "unused", "open" or "closed"
  is_connected,  \* per link: BleakClient.is_connected
  notifying,     \* per link: the callback is registered and served
  subs,          \* per link: start_notify calls issued on it
  visible,       \* the device is advertising
  spent,         \* calls started and environment events so far
  rested,        \* the scheduler has idled since the last operation
  pc,            \* per process: the await or statement it is at
  stack,         \* per process: return labels of the calls in progress
  loc,           \* per process: local variables
  result,        \* how the last call that ended did so
  fresh52,       \* history: a status frame was parsed in the running call
  exhaustions    \* history: consecutive poll exhaustions

tsVars    == <<notify_count, last_notify_len, ago_any, ago_52, ago_8>>
sessVars  == <<client, last, evt_52, tsVars>>
linkVars  == <<hstate, is_connected, notifying, subs>>
envVars   == <<visible, spent>>
ctlVars   == <<pc, stack, loc>>
lockVars  == <<lock, waiters>>
histVars  == <<fresh52, exhaustions>>
vars == <<sessVars, lockVars, linkVars, envVars, rested, ctlVars, result,
          histVars>>

\* the awaits that suspend the coroutine
YieldPcs == {"idle", "done", "lock_wait", "dc_stop_notify", "dc_close",
             "wd_sleep", "establish", "start_notify", "read_io", "pf_write",
             "pf_wait", "ps_sleep", "so_write", "so_settling", "so_sleep"}

\* locals of a call: elapsed is now - t0, pf_elapsed is now - start,
\* wait_left is the rest of a wait_for timeout, wd_left is end - now,
\* cmd_ago is the time since the command write returned
LocInit == [c |-> NoClient, h |-> NoClient, elapsed |-> 0, attempt |-> 0,
            on |-> FALSE, budget |-> 0, pf_elapsed |-> 0, wait |-> 0,
            wait_left |-> 0, wd_left |-> 0, rv |-> FALSE, resp |-> FALSE,
            retry |-> FALSE, cmd_ago |-> None, path |-> "none",
            last0 |-> Parsed]

NoResult == [by |-> "none", status |-> "none", value |-> Parsed,
             path |-> "none", err |-> "none", on |-> FALSE, last0 |-> Parsed,
             fresh |-> FALSE]

Init ==
  /\ client = NoClient
  /\ lock = "none"
  /\ waiters = <<>>
  /\ last = Parsed
  /\ evt_52 = FALSE
  /\ notify_count = 0
  /\ last_notify_len = <<>>
  /\ ago_any = None
  /\ ago_52 = None
  /\ ago_8 = None
  /\ hstate = [h \in Handles |-> "unused"]
  /\ is_connected = [h \in Handles |-> FALSE]
  /\ notifying = [h \in Handles |-> FALSE]
  /\ subs = [h \in Handles |-> 0]
  /\ visible = TRUE
  /\ spent = 0
  /\ rested = FALSE
  /\ pc = [p \in Procs |-> "idle"]
  /\ stack = [p \in Procs |-> <<>>]
  /\ loc = [p \in Procs |-> LocInit]
  /\ result = NoResult
  /\ fresh52 = FALSE
  /\ exhaustions = 0

(* -------------------------------- time --------------------------------- *)
\* the longest age any comparison of the source distinguishes
Horizon == NO_NOTIFY_RECONNECT_SEC + 1

Older(a, d) == IF a = None THEN None ELSE Min(a + d, Horizon)

\* the locals of the running call after d more ticks
Aged(l, d) ==
  [l EXCEPT !.elapsed = Min(@ + d, Horizon),
            !.pf_elapsed = Min(@ + d, Horizon),
            !.wait_left = Max(@ - d, 0),
            !.wd_left = Max(@ - d, 0),
            !.cmd_ago = Older(@, d)]

\* d ticks pass on the event loop's clock
Pass(d) ==
  /\ ago_any' = Older(ago_any, d)
  /\ ago_52' = Older(ago_52, d)
  /\ ago_8' = Older(ago_8, d)

(* ------------------------------ plumbing ------------------------------- *)
\* a suspended coroutine resumes only when no other one is running
Turn == \A p \in Procs : pc[p] \in YieldPcs

Goto(p, l) == pc' = [pc EXCEPT ![p] = l] /\ UNCHANGED stack
Call(p, entry, ret) ==
  /\ pc' = [pc EXCEPT ![p] = entry]
  /\ stack' = [stack EXCEPT ![p] = <<ret>> \o @]
Return(p) ==
  /\ pc' = [pc EXCEPT ![p] = Head(stack[p])]
  /\ stack' = [stack EXCEPT ![p] = Tail(@)]

\* the link behind handle h still carries traffic
LinkOk(h) == h # NoClient /\ hstate[h] = "open" /\ is_connected[h]

\* Raise with the lock left held
RaiseMut(t, e) ==
  /\ pc' = [pc EXCEPT ![t] = "idle"]
  /\ stack' = [stack EXCEPT ![t] = <<>>]
  /\ UNCHANGED lock
  /\ result' = [by |-> t, status |-> "raised", value |-> Parsed,
                path |-> "none", err |-> e, on |-> loc[t].on,
                last0 |-> loc[t].last0, fresh |-> fresh52]
  /\ loc' = [loc EXCEPT ![t] = LocInit]

\* an exception leaves poll_status or set_on: "async with" releases the lock
Raise(t, e) ==
  /\ pc' = [pc EXCEPT ![t] = "idle"]
  /\ stack' = [stack EXCEPT ![t] = <<>>]
  /\ lock' = "none"
  /\ result' = [by |-> t, status |-> "raised", value |-> Parsed,
                path |-> "none", err |-> e, on |-> loc[t].on,
                last0 |-> loc[t].last0, fresh |-> fresh52]
  /\ loc' = [loc EXCEPT ![t] = LocInit]

\* "return self._last" by the path named w
ReturnLast(t, w) ==
  /\ pc' = [pc EXCEPT ![t] = "op_return"]
  /\ UNCHANGED stack
  /\ loc' = [loc EXCEPT ![t].path = w]

\* a step of synchronous code that touches only the coroutine's own frame
OnlyCtl == UNCHANGED <<sessVars, lockVars, linkVars, envVars, rested, result,
                       histVars>>

(* ------------------------- lock and its callers ------------------------ *)
\* CanAcquire without the test of the lock
CanAcquireMut == TRUE

\* asyncio.Lock.acquire takes a free lock at once unless somebody queues
CanAcquire == lock = "none" /\ waiters = <<>>

Entry(t) == IF t = "poll" THEN "ps_begin" ELSE "so_begin"

\* _async_update_data calls poll_status(timeout=6.0); async_set_power calls
\* set_on(on, timeout=6.0): "async with self._lock"
Begin(t) ==
  /\ pc[t] = "idle" /\ Turn
  /\ spent < Budget
  /\ spent' = spent + 1 /\ rested' = FALSE
  /\ \E on \in (IF t = "cmd" THEN BOOLEAN ELSE {FALSE}) :
       loc' = [loc EXCEPT ![t] = [LocInit EXCEPT !.on = on]]
  /\ result' = NoResult
  /\ IF CanAcquire
       THEN lock' = t /\ UNCHANGED waiters /\ pc' = [pc EXCEPT ![t] = Entry(t)]
       ELSE UNCHANGED lock /\ waiters' = Append(waiters, t)
            /\ pc' = [pc EXCEPT ![t] = "lock_wait"]
  /\ UNCHANGED <<sessVars, linkVars, visible, stack, histVars>>

\* release() wakes the first waiter, which then owns the lock
LockWake(t) ==
  /\ pc[t] = "lock_wait" /\ Turn
  /\ lock = "none" /\ waiters # <<>> /\ Head(waiters) = t
  /\ lock' = t /\ waiters' = Tail(waiters)
  /\ pc' = [pc EXCEPT ![t] = Entry(t)]
  /\ UNCHANGED <<sessVars, linkVars, envVars, rested, stack, loc, result,
                 histVars>>

\* ReturnedValue with a fresh Parsed() handed back after an exhausted poll
ReturnedValueMut(t) == IF loc[t].path = "exhausted" THEN Parsed ELSE last

\* the value a call hands back: the object self._last as it is at the return
ReturnedValue(t) == last

\* _async_update_data: the value of poll_status is the refresh's data, an
\* exception becomes UpdateFailed; nothing is retried
UpdateOutcome ==
  IF result.by # "poll" THEN "none"
  ELSE IF result.status = "raised" THEN "UpdateFailed"
  ELSE IF result.status = "cancelled" THEN "CancelledError" ELSE "data"

\* "return self._last" leaves the "async with" block
OpReturn(t) ==
  /\ pc[t] = "op_return"
  /\ result' = [by |-> t, status |-> "returned", value |-> ReturnedValue(t),
                path |-> loc[t].path, err |-> "none", on |-> loc[t].on,
                last0 |-> loc[t].last0, fresh |-> fresh52]
  /\ exhaustions' = IF loc[t].path = "exhausted" /\ exhaustions <= WatchdogThreshold
                      THEN exhaustions + 1 ELSE exhaustions
  /\ lock' = "none"
  /\ pc' = [pc EXCEPT ![t] = "idle"]
  /\ loc' = [loc EXCEPT ![t] = LocInit]
  /\ UNCHANGED <<sessVars, waiters, linkVars, envVars, rested, stack,
                 fresh52>>

\* async_unload_entry -> async_shutdown: await self.ble.disconnect()
Shutdown ==
  /\ pc["shutdown"] = "idle" /\ Turn
  /\ spent < Budget
  /\ spent' = spent + 1
  /\ Call("shutdown", "disconnect", "done")
  /\ UNCHANGED <<sessVars, lockVars, linkVars, visible, rested, loc, result,
                 histVars>>

(* ------------------------------ disconnect ----------------------------- *)
\* if not self._client: return; else await self._client.stop_notify(...)
Disconnect(p) ==
  /\ pc[p] = "disconnect"
  /\ IF client = NoClient
       THEN Return(p) /\ UNCHANGED loc
       ELSE /\ Goto(p, "dc_stop_notify")
            /\ loc' = [loc EXCEPT ![p].h = client]
  /\ OnlyCtl

\* stop_notify has returned or raised (swallowed); then self._client is read
\* again: None raises AttributeError (swallowed), else its disconnect() starts
DcStopNotify(p) ==
  /\ pc[p] = "dc_stop_notify" /\ Turn
  /\ notifying' = IF LinkOk(loc[p].h)
                    THEN [notifying EXCEPT ![loc[p].h] = FALSE] ELSE notifying
  /\ IF client = NoClient
       THEN Return(p) /\ loc' = [loc EXCEPT ![p].h = NoClient]
       ELSE /\ Goto(p, "dc_close")
            /\ loc' = [loc EXCEPT ![p].h = client]
  /\ UNCHANGED <<sessVars, lockVars, hstate, is_connected, subs, envVars,
                 rested, result, histVars>>

\* the link's disconnect() has returned or raised (swallowed): the link is
\* gone either way; self._client = None
DcClose(p) ==
  /\ pc[p] = "dc_close" /\ Turn
  /\ hstate' = [hstate EXCEPT ![loc[p].h] = "closed"]
  /\ is_connected' = [is_connected EXCEPT ![loc[p].h] = FALSE]
  /\ notifying' = [notifying EXCEPT ![loc[p].h] = FALSE]
  /\ client' = NoClient
  /\ Return(p)
  /\ loc' = [loc EXCEPT ![p].h = NoClient]
  /\ UNCHANGED <<last, evt_52, tsVars, lockVars, subs, envVars, rested,
                 result, histVars>>

(* ------------------------------- connect ------------------------------- *)
\* _wait_ble_device(timeout=10.0): end = self._now() + timeout
Connect(t) ==
  /\ pc[t] = "connect"
  /\ Goto(t, "wd_loop")
  /\ loc' = [loc EXCEPT ![t].wd_left = WAIT_DEVICE_TIMEOUT]
  /\ OnlyCtl

\* one turn of the lookup loop: found -> establish_connection; not found ->
\* sleep 0.5; out of time -> BleakNotFoundError
WaitDevice(t) ==
  /\ pc[t] = "wd_loop"
  /\ IF loc[t].wd_left > 0
       THEN /\ Goto(t, IF visible THEN "establish" ELSE "wd_sleep")
            /\ loc' = [loc EXCEPT ![t].wd_left = IF visible THEN 0 ELSE @]
            /\ UNCHANGED <<lock, result>>
       ELSE Raise(t, "BleakNotFoundError")
  /\ UNCHANGED <<sessVars, waiters, linkVars, envVars, rested, histVars>>

WaitDeviceSleep(t) ==
  /\ pc[t] = "wd_sleep" /\ Turn
  /\ Pass(WAIT_DEVICE_SLEEP)
  /\ loc' = [loc EXCEPT ![t] = Aged(@, WAIT_DEVICE_SLEEP)]
  /\ Goto(t, "wd_loop")
  /\ UNCHANGED <<client, last, evt_52, notify_count, last_notify_len, lockVars,
                 linkVars, envVars, rested, result, histVars>>

NewHandle == CHOOSE h \in Handles : hstate[h] = "unused" /\
                                    \A g \in Handles : hstate[g] = "unused" => h <= g

\* establish_connection returned a connected client after d ticks:
\* self._client = it, and start_notify is called on it
Establish(t) ==
  /\ pc[t] = "establish" /\ Turn
  /\ visible /\ \E h \in Handles : hstate[h] = "unused"
  /\ \E d \in (IF spent < Budget THEN {0, SlowIo} ELSE {0}) :
       /\ Pass(d)
       /\ spent' = IF d > 0 THEN spent + 1 ELSE spent
       /\ loc' = [loc EXCEPT ![t] = [Aged(@, d) EXCEPT !.h = NewHandle]]
  /\ hstate' = [hstate EXCEPT ![NewHandle] = "open"]
  /\ is_connected' = [is_connected EXCEPT ![NewHandle] = TRUE]
  /\ subs' = [subs EXCEPT ![NewHandle] = @ + 1]
  /\ client' = NewHandle
  /\ Goto(t, "start_notify")
  /\ UNCHANGED <<last, evt_52, notify_count, last_notify_len, lockVars,
                 notifying, visible, rested, result, histVars>>

\* establish_connection gave up after max_attempts=3
EstablishFail(t) ==
  /\ pc[t] = "establish" /\ Turn
  /\ \/ ~visible /\ UNCHANGED spent
     \/ ~(\E h \in Handles : hstate[h] = "unused") /\ UNCHANGED spent
     \/ spent < Budget /\ spent' = spent + 1
  /\ Raise(t, "ConnectFailed")
  /\ UNCHANGED <<sessVars, waiters, linkVars, visible, rested, histVars>>

\* start_notify has returned, or raised (logged and swallowed);
\* self._evt_52.clear()
StartNotify(t) ==
  /\ pc[t] = "start_notify" /\ Turn
  /\ \/ /\ LinkOk(loc[t].h)
        /\ notifying' = [notifying EXCEPT ![loc[t].h] = TRUE]
        /\ UNCHANGED spent
     \/ /\ ~LinkOk(loc[t].h) \/ spent < Budget
        /\ spent' = IF LinkOk(loc[t].h) THEN spent + 1 ELSE spent
        /\ UNCHANGED notifying
  /\ evt_52' = FALSE
  /\ Return(t)
  /\ loc' = [loc EXCEPT ![t].h = NoClient]
  /\ UNCHANGED <<client, last, tsVars, lockVars, hstate, is_connected, subs,
                 visible, rested, result, histVars>>

(* ------------------------------- _ensure ------------------------------- *)
\* EnsureLive that never finds the link live
EnsureLiveMut == FALSE

\* self._client and self._client.is_connected
EnsureLive == client # NoClient /\ is_connected[client]

Ensure(t) ==
  /\ pc[t] = "ensure"
  /\ IF EnsureLive
       THEN Return(t) /\ loc' = [loc EXCEPT ![t].c = client]
       ELSE Call(t, "disconnect", "ensure_connect") /\ UNCHANGED loc
  /\ OnlyCtl

EnsureConnect(t) ==
  /\ pc[t] = "ensure_connect"
  /\ Call(t, "connect", "ensure_ret")
  /\ UNCHANGED loc /\ OnlyCtl

\* assert self._client is not None; return self._client
EnsureRet(t) ==
  /\ pc[t] = "ensure_ret"
  /\ IF client # NoClient
       THEN /\ Return(t) /\ loc' = [loc EXCEPT ![t].c = client]
            /\ UNCHANGED <<lock, result>>
       ELSE Raise(t, "AssertionError")
  /\ UNCHANGED <<sessVars, waiters, linkVars, envVars, rested, histVars>>

(* ------------------- what follows a read or a poll round --------------- *)
\* the coroutine of t goes on at label p, with return labels stk and locals l
Resume(t, p, stk, l) ==
  /\ pc' = [pc EXCEPT ![t] = p]
  /\ stack' = [stack EXCEPT ![t] = stk]
  /\ loc' = [loc EXCEPT ![t] = l]

\* "return self._last" by the path named w, from the statement after an await
ReturnLastFrom(t, stk, l, w) == Resume(t, "op_return", stk, [l EXCEPT !.path = w])

\* last_8_ts is not None and last_8_ts >= since_ts and now - last_8_ts <= window;
\* a8 is now - last_8_ts, since_ago is how long ago since_ts was
\* no idle frame ever counts as recent
_recent_idle_notifyMut(a8, since_ago, window_sec) == FALSE
_recent_idle_notify(a8, since_ago, window_sec) ==
  a8 # None /\ a8 <= since_ago /\ a8 <= window_sec

\* the comparison with the is-not-None test alone
MatchedMut(l, on) == l.is_on # <<>>

\* l.is_on is not None and l.is_on == on, for l the object self._last
Matched(l, on) == l.is_on = <<on>>

\* the locals of one turn of a loop are dead at the next one
NextTurn(l) == [l EXCEPT !.rv = FALSE, !.resp = FALSE, !.budget = 0,
                         !.wait = 0, !.wait_left = 0, !.pf_elapsed = 0]

\* poll_status: if self._now() + 0.15 < deadline: await asyncio.sleep(0.15)
PsPause(t, stk, l) ==
  IF l.elapsed + PAUSE < OP_TIMEOUT
    THEN Resume(t, "ps_sleep", stk, NextTurn(l))
    ELSE Resume(t, "ps_loop", stk, [NextTurn(l) EXCEPT !.attempt = @ + 1])

\* poll_status: the quick read returned
PsRead1Ret(t, stk, l) ==
  IF l.rv
    THEN ReturnLastFrom(t, stk, l, "read")
    ELSE Resume(t, "ps_loop", stk, [l EXCEPT !.attempt = 1])

\* poll_status: the read after a poll round returned
PsRead2Ret(t, stk, l) ==
  IF l.rv THEN ReturnLastFrom(t, stk, l, "read") ELSE PsPause(t, stk, l)

\* poll_status after _poll_for_52: got52, the idle short cut, the optional
\* read
PsPolled(t, stk, l) ==
  IF l.rv
    THEN ReturnLastFrom(t, stk, l, "notify52")
    ELSE IF _recent_idle_notify(ago_8', l.elapsed, IDLE_NOTIFY_FAST_RETURN_SEC)
           THEN ReturnLastFrom(t, stk, l, "idle")
           ELSE IF l.elapsed < OP_TIMEOUT
                  THEN Resume(t, "read_io", <<"ps_read2_ret">> \o stk, l)
                  ELSE PsPause(t, stk, l)

\* set_on: if self._now() + 0.15 < deadline: await asyncio.sleep(0.15)
SoPause(t, stk, l) ==
  Resume(t, IF l.elapsed + PAUSE < OP_TIMEOUT THEN "so_sleep" ELSE "so_loop",
         stk, NextTurn(l))

\* set_on: the read returned
SoReadRet(t, stk, l) ==
  IF l.rv /\ Matched(last', l.on)
    THEN ReturnLastFrom(t, stk, l, "read")
    ELSE SoPause(t, stk, l)

\* set_on: the read, only if there is time
SoRead(t, stk, l) ==
  IF l.elapsed < OP_TIMEOUT
    THEN Resume(t, "read_io", <<"so_read_ret">> \o stk, l)
    ELSE SoPause(t, stk, l)

\* set_on: ok = await self._poll_for_52(...); if ok and is_on == on: return
SoPolled(t, stk, l) ==
  IF l.rv /\ Matched(last', l.on)
    THEN ReturnLastFrom(t, stk, l, "notify52")
    ELSE SoRead(t, stk, l)

\* _try_read_status52 or _poll_for_52 returns to the statement labelled ret,
\* which runs at once; the new values of self._last and of the timestamps
\* are those the returning step has set
Returned(t, ret, stk, l) ==
  CASE ret = "ps_read1_ret" -> PsRead1Ret(t, stk, l)
    [] ret = "ps_polled"    -> PsPolled(t, stk, l)
    [] ret = "ps_read2_ret" -> PsRead2Ret(t, stk, l)
    [] ret = "so_polled"    -> SoPolled(t, stk, l)
    [] ret = "so_read_ret"  -> SoReadRet(t, stk, l)

(* ----------------------- reads, writes and waits ----------------------- *)
\* _try_read_status52: the read raised or returned something that is not 52
\* bytes long: False
ReadEmpty(t) ==
  /\ pc[t] = "read_io" /\ Turn
  /\ OnlyCtl
  /\ Returned(t, Head(stack[t]), Tail(stack[t]), [loc[t] EXCEPT !.rv = FALSE])

\* the read returned 52 bytes: _parse_52, two timestamps, True
ReadStatus(t, b) ==
  /\ pc[t] = "read_io" /\ Turn
  /\ LinkOk(loc[t].c) /\ spent < Budget
  /\ spent' = spent + 1
  /\ last' = _parse_52(b)
  /\ ago_any' = 0 /\ ago_52' = 0
  /\ fresh52' = TRUE /\ exhaustions' = 0
  /\ UNCHANGED <<client, evt_52, notify_count, last_notify_len, ago_8, lockVars,
                 linkVars, visible, rested, result>>
  /\ Returned(t, Head(stack[t]), Tail(stack[t]), [loc[t] EXCEPT !.rv = TRUE])

\* _poll_for_52(c, budget_sec), to return to ret: nothing to do without a
\* budget; else start = now, left = budget, and the first _try clears
\* self._evt_52 and starts its write
\* _poll_for_52 whose first _try does not clear the event
Pf52Mut(t, budget, ret) ==
  IF budget <= 0
    THEN /\ UNCHANGED evt_52
         /\ Returned(t, ret, stack[t], [loc[t] EXCEPT !.rv = FALSE])
    ELSE /\ UNCHANGED evt_52
         /\ Resume(t, "pf_write", <<ret>> \o stack[t],
                   [loc[t] EXCEPT !.budget = budget, !.pf_elapsed = 0,
                                  !.resp = FALSE, !.rv = FALSE,
                                  !.wait = Min(TRY_WAIT, budget)])

Pf52(t, budget, ret) ==
  IF budget <= 0
    THEN /\ UNCHANGED evt_52
         /\ Returned(t, ret, stack[t], [loc[t] EXCEPT !.rv = FALSE])
    ELSE /\ evt_52' = FALSE
         /\ Resume(t, "pf_write", <<ret>> \o stack[t],
                   [loc[t] EXCEPT !.budget = budget, !.pf_elapsed = 0,
                                  !.resp = FALSE, !.rv = FALSE,
                                  !.wait = Min(TRY_WAIT, budget)])

\* the except clause that catches an exception leaving _poll_for_52
Handler(ret) == IF ret = "ps_polled" THEN "ps_except" ELSE "so_except"

\* write_gatt_char(POLL52) returned: wait_for(self._evt_52.wait(), wait_sec)
PfWrite(t) ==
  /\ pc[t] = "pf_write" /\ Turn
  /\ LinkOk(loc[t].c)
  /\ loc' = [loc EXCEPT ![t].wait_left = loc[t].wait]
  /\ Goto(t, "pf_wait")
  /\ OnlyCtl

\* write_gatt_char(POLL52) raised: the exception leaves _poll_for_52
PfWriteFail(t) ==
  /\ pc[t] = "pf_write" /\ Turn
  /\ \/ ~LinkOk(loc[t].c) /\ UNCHANGED spent
     \/ LinkOk(loc[t].c) /\ spent < Budget /\ spent' = spent + 1
  /\ pc' = [pc EXCEPT ![t] = Handler(Head(stack[t]))]
  /\ stack' = [stack EXCEPT ![t] = Tail(@)]
  /\ UNCHANGED <<sessVars, lockVars, linkVars, visible, rested, loc, result,
                 histVars>>

\* the wait for a status frame without its timeout
PfWaitMut(t) ==
  /\ pc[t] = "pf_wait" /\ Turn /\ evt_52
  /\ UNCHANGED <<sessVars, lockVars, linkVars, envVars, rested, result,
                 histVars>>
  /\ Returned(t, Head(stack[t]), Tail(stack[t]),
              [loc[t] EXCEPT !.rv = TRUE, !.wait_left = 0])

\* the wait ended. The event was set: _try and _poll_for_52 return True. The
\* timeout ran out: after the first _try with time left, the second one
\* (clear, write with response); else _poll_for_52 returns False
PfWait(t) ==
  /\ pc[t] = "pf_wait" /\ Turn
  /\ UNCHANGED <<client, last, notify_count, last_notify_len, lockVars,
                 linkVars, envVars, rested, result, histVars>>
  /\ IF evt_52
       THEN /\ UNCHANGED <<evt_52, ago_any, ago_52, ago_8>>
            /\ Returned(t, Head(stack[t]), Tail(stack[t]),
                        [loc[t] EXCEPT !.rv = TRUE, !.wait_left = 0])
       ELSE /\ Pass(loc[t].wait_left)
            /\ LET l == [Aged(loc[t], loc[t].wait_left) EXCEPT !.rv = FALSE]
                   left == l.budget - l.pf_elapsed
               IN  IF l.resp \/ left <= 0
                     THEN /\ UNCHANGED evt_52
                          /\ Returned(t, Head(stack[t]), Tail(stack[t]), l)
                     ELSE /\ evt_52' = FALSE
                          /\ Resume(t, "pf_write", stack[t],
                                    [l EXCEPT !.resp = TRUE,
                                              !.wait = Min(TRY_WAIT, left)])

(* ----------------------------- poll_status ----------------------------- *)
\* SilentTooLong without the ceiling
SilentTooLongMut == ago_any # None

\* silent_for > NO_NOTIFY_RECONNECT_SEC, provided a notification ever came
SilentTooLong == ago_any # None /\ ago_any > NO_NOTIFY_RECONNECT_SEC

\* t0, deadline, poll_started; c = await self._ensure()
PsBegin(t) ==
  /\ pc[t] = "ps_begin"
  /\ loc' = [loc EXCEPT ![t].elapsed = 0, ![t].last0 = last]
  /\ fresh52' = FALSE
  /\ Call(t, "ensure", "ps_read1")
  /\ UNCHANGED <<sessVars, lockVars, linkVars, envVars, rested, result,
                 exhaustions>>

\* 1) the quick read, if there is time
PsRead1(t) ==
  /\ pc[t] = "ps_read1"
  /\ OnlyCtl
  /\ IF loc[t].elapsed < OP_TIMEOUT
       THEN Resume(t, "read_io", <<"ps_read1_ret">> \o stack[t], loc[t])
       ELSE Resume(t, "ps_loop", stack[t], [loc[t] EXCEPT !.attempt = 1])

\* 2) head of "for attempt in range(1, 4)"
PsLoop(t) ==
  /\ pc[t] = "ps_loop"
  /\ UNCHANGED <<client, last, tsVars, lockVars, linkVars, envVars, rested,
                 result, histVars>>
  /\ LET remaining == OP_TIMEOUT - loc[t].elapsed
     IN  IF loc[t].attempt > POLL_ATTEMPTS \/ remaining <= 0
           THEN Goto(t, "ps_watchdog") /\ UNCHANGED <<loc, evt_52>>
           ELSE IF _recent_idle_notify(ago_8, loc[t].elapsed,
                                       IDLE_NOTIFY_FAST_RETURN_SEC)
                  THEN ReturnLast(t, "idle") /\ UNCHANGED evt_52
                  ELSE Pf52(t, Min(POLL_BUDGET, remaining), "ps_polled")

\* except Exception: await self.disconnect(); c = await self._ensure(); continue
PsExcept(t) ==
  /\ pc[t] = "ps_except"
  /\ Call(t, "disconnect", "ps_except_ens")
  /\ UNCHANGED loc /\ OnlyCtl

PsExceptEnsure(t) ==
  /\ pc[t] = "ps_except_ens"
  /\ Call(t, "ensure", "ps_continue")
  /\ UNCHANGED loc /\ OnlyCtl

PsContinue(t) ==
  /\ pc[t] = "ps_continue"
  /\ Goto(t, "ps_loop")
  /\ loc' = [loc EXCEPT ![t] = [NextTurn(@) EXCEPT !.attempt = @ + 1]]
  /\ OnlyCtl

\* the sleep between two attempts is over
PsSleep(t) ==
  /\ pc[t] = "ps_sleep" /\ Turn
  /\ Pass(PAUSE)
  /\ loc' = [loc EXCEPT ![t] = [Aged(@, PAUSE) EXCEPT !.attempt = @ + 1]]
  /\ Goto(t, "ps_loop")
  /\ UNCHANGED <<client, last, evt_52, notify_count, last_notify_len, lockVars,
                 linkVars, envVars, rested, result, histVars>>

\* 3) reconnect only after a long silence
PsWatchdog(t) ==
  /\ pc[t] = "ps_watchdog"
  /\ IF SilentTooLong
       THEN Call(t, "disconnect", "ps_wd_ens")
       ELSE Goto(t, "ps_end")
  /\ UNCHANGED loc /\ OnlyCtl

\* the link is closed and not set up again
PsWatchdogEnsureMut(t) ==
  /\ pc[t] = "ps_wd_ens"
  /\ Goto(t, "ps_end")
  /\ UNCHANGED loc /\ OnlyCtl

PsWatchdogEnsure(t) ==
  /\ pc[t] = "ps_wd_ens"
  /\ Call(t, "ensure", "ps_end")
  /\ UNCHANGED loc /\ OnlyCtl

\* end NO-52 -> return last
PsEnd(t) ==
  /\ pc[t] = "ps_end"
  /\ ReturnLast(t, "exhausted")
  /\ OnlyCtl

(* -------------------------------- set_on ------------------------------- *)
\* t0, deadline, cmd; c = await self._ensure()
SoBegin(t) ==
  /\ pc[t] = "so_begin"
  /\ loc' = [loc EXCEPT ![t].elapsed = 0, ![t].last0 = last]
  /\ fresh52' = FALSE
  /\ Call(t, "ensure", "so_cmd")
  /\ UNCHANGED <<sessVars, lockVars, linkVars, envVars, rested, result,
                 exhaustions>>

\* await self._write(c, cmd, response=True, tag="CMD")
SoCmd(t) ==
  /\ pc[t] = "so_cmd"
  /\ Goto(t, "so_write")
  /\ loc' = [loc EXCEPT ![t].retry = FALSE]
  /\ OnlyCtl

\* the command write (first or retried) returned;
\* if self._now() + 0.25 < deadline: await asyncio.sleep(0.25)
SoWrite(t) ==
  /\ pc[t] = "so_write" /\ Turn
  /\ LinkOk(loc[t].c)
  /\ loc' = [loc EXCEPT ![t].cmd_ago = 0]
  /\ Goto(t, IF loc[t].elapsed + SETTLE < OP_TIMEOUT
               THEN "so_settling" ELSE "so_loop")
  /\ OnlyCtl

\* the command write raised: the first time reconnect and retry, the second
\* time the exception leaves set_on
SoWriteFail(t) ==
  /\ pc[t] = "so_write" /\ Turn
  /\ \/ ~LinkOk(loc[t].c) /\ UNCHANGED spent
     \/ LinkOk(loc[t].c) /\ spent < Budget /\ spent' = spent + 1
  /\ IF loc[t].retry
       THEN Raise(t, "WriteFailed")
       ELSE Goto(t, "so_wfail") /\ UNCHANGED <<loc, lock, result>>
  /\ UNCHANGED <<sessVars, waiters, linkVars, visible, rested, histVars>>

SoWriteFailed(t) ==
  /\ pc[t] = "so_wfail"
  /\ Call(t, "disconnect", "so_wfail_ens")
  /\ UNCHANGED loc /\ OnlyCtl

SoWriteFailedEnsure(t) ==
  /\ pc[t] = "so_wfail_ens"
  /\ Call(t, "ensure", "so_retry")
  /\ UNCHANGED loc /\ OnlyCtl

\* the retried write taken for a first write
SoRetryMut(t) ==
  /\ pc[t] = "so_retry"
  /\ Goto(t, "so_write")
  /\ UNCHANGED loc /\ OnlyCtl

\* await self._write(c, cmd, response=True, tag="CMD(retry)")
SoRetry(t) ==
  /\ pc[t] = "so_retry"
  /\ Goto(t, "so_write")
  /\ loc' = [loc EXCEPT ![t].retry = TRUE]
  /\ OnlyCtl

\* the sleep after the command write is over
SoSettling(t) ==
  /\ pc[t] = "so_settling" /\ Turn
  /\ Pass(SETTLE)
  /\ loc' = [loc EXCEPT ![t] = Aged(@, SETTLE)]
  /\ Goto(t, "so_loop")
  /\ UNCHANGED <<client, last, evt_52, notify_count, last_notify_len, lockVars,
                 linkVars, envVars, rested, result, histVars>>

\* IdleConfirmsOff with the window of the fast return (1.0 s)
IdleConfirmsOffMut(on) ==
  on = FALSE /\ ago_8 # None /\ ago_8 <= IDLE_NOTIFY_FAST_RETURN_SEC

\* on is False and self._last_8_ts and (now - self._last_8_ts) <= 4.0
IdleConfirmsOff(on) ==
  on = FALSE /\ ago_8 # None /\ ago_8 <= IDLE_AFTER_OFF_CONFIRM_SEC

\* SetIsOn that assigns nothing
SetIsOnMut(on) == last

\* self._last.is_on = on : one field of the object self._last is assigned
SetIsOn(on) == [last EXCEPT !.is_on = <<on>>]

\* head of "while self._now() < deadline"
SoLoop(t) ==
  /\ pc[t] = "so_loop"
  /\ UNCHANGED <<client, tsVars, lockVars, linkVars, envVars, rested, result,
                 histVars>>
  /\ IF ~(loc[t].elapsed < OP_TIMEOUT)
       THEN Goto(t, "so_optimistic") /\ UNCHANGED <<loc, last, evt_52>>
       ELSE IF Matched(last, loc[t].on)
              THEN ReturnLast(t, "matched") /\ UNCHANGED <<last, evt_52>>
              ELSE IF IdleConfirmsOff(loc[t].on)
                     THEN /\ last' = SetIsOn(FALSE)
                          /\ ReturnLast(t, "idle") /\ UNCHANGED evt_52
                     ELSE /\ UNCHANGED last
                          /\ Pf52(t, Min(SET_BUDGET,
                                         OP_TIMEOUT - loc[t].elapsed),
                                  "so_polled")

\* except Exception: await self.disconnect(); c = await self._ensure()
SoExcept(t) ==
  /\ pc[t] = "so_except"
  /\ Call(t, "disconnect", "so_except_ens")
  /\ UNCHANGED loc /\ OnlyCtl

SoExceptEnsure(t) ==
  /\ pc[t] = "so_except_ens"
  /\ Call(t, "ensure", "so_read")
  /\ UNCHANGED loc /\ OnlyCtl

\* after the except clause: the read, only if there is time
SoExceptRead(t) ==
  /\ pc[t] = "so_read"
  /\ OnlyCtl
  /\ SoRead(t, stack[t], loc[t])

\* the sleep at the end of a turn of the loop is over
SoSleep(t) ==
  /\ pc[t] = "so_sleep" /\ Turn
  /\ Pass(PAUSE)
  /\ loc' = [loc EXCEPT ![t] = Aged(@, PAUSE)]
  /\ Goto(t, "so_loop")
  /\ UNCHANGED <<client, last, evt_52, notify_count, last_notify_len, lockVars,
                 linkVars, envVars, rested, result, histVars>>

\* NOT CONFIRMED -> optimistic: self._last.is_on = on; return self._last
SoOptimistic(t) ==
  /\ pc[t] = "so_optimistic"
  /\ last' = SetIsOn(loc[t].on)
  /\ ReturnLast(t, "optimistic")
  /\ UNCHANGED <<client, evt_52, tsVars, lockVars, linkVars, envVars, rested,
                 result, histVars>>

(* ----------------------------- environment ----------------------------- *)
\* _notification_cb with evt.set() for a frame of any length
NotifyMut(h, b) ==
  /\ Turn /\ spent < Budget
  /\ LinkOk(h) /\ notifying[h]
  /\ spent' = spent + 1
  /\ notify_count' = notify_count + 1
  /\ last_notify_len' = <<Len(b)>>
  /\ ago_any' = 0
  /\ ago_52' = IF Len(b) = FRAME52 THEN 0 ELSE ago_52
  /\ ago_8' = IF Len(b) = FRAME8 THEN 0 ELSE ago_8
  /\ evt_52' = TRUE
  /\ IF Len(b) = FRAME52
       THEN /\ last' = _parse_52(b)
            /\ fresh52' = TRUE /\ exhaustions' = 0
       ELSE UNCHANGED <<last, fresh52, exhaustions>>
  /\ UNCHANGED <<client, lockVars, linkVars, visible, rested, ctlVars,
                 result>>

\* _notification_cb(handle, data) for a frame b delivered on link h
Notify(h, b) ==
  /\ Turn /\ spent < Budget
  /\ LinkOk(h) /\ notifying[h]
  /\ spent' = spent + 1
  /\ notify_count' = notify_count + 1
  /\ last_notify_len' = <<Len(b)>>
  /\ ago_any' = 0
  /\ ago_52' = IF Len(b) = FRAME52 THEN 0 ELSE ago_52
  /\ ago_8' = IF Len(b) = FRAME8 THEN 0 ELSE ago_8
  /\ IF Len(b) = FRAME52
       THEN /\ last' = _parse_52(b) /\ evt_52' = TRUE
            /\ fresh52' = TRUE /\ exhaustions' = 0
       ELSE UNCHANGED <<last, evt_52, fresh52, exhaustions>>
  /\ UNCHANGED <<client, lockVars, linkVars, visible, rested, ctlVars,
                 result>>

\* the radio link behind h drops
LinkDrop(h) ==
  /\ Turn /\ spent < Budget
  /\ LinkOk(h)
  /\ spent' = spent + 1
  /\ is_connected' = [is_connected EXCEPT ![h] = FALSE]
  /\ UNCHANGED <<sessVars, lockVars, hstate, notifying, subs, visible,
                 rested, ctlVars, result, histVars>>

\* the device's advertisement appears or disappears, between operations or
\* while a lookup is waiting for it
Advertise ==
  /\ Turn /\ spent < Budget
  /\ (\A t \in Tasks : pc[t] = "idle") \/ (\E t \in Tasks : pc[t] = "wd_sleep")
  /\ spent' = spent + 1
  /\ visible' = ~visible
  /\ UNCHANGED <<sessVars, lockVars, linkVars, rested, ctlVars, result,
                 histVars>>

\* the scheduler ticks every DEFAULT_POLL_INTERVAL and a tick polls the
\* device only when MIN_EFFECTIVE_POLL_SECONDS have passed since the last
\* poll: the next poll comes after 15 s at the earliest, after the second
\* tick by default
QuietGaps == {MIN_EFFECTIVE_POLL_SECONDS, 2 * DEFAULT_POLL_INTERVAL}

\* nothing is asked of the session until the scheduler's next refresh
Quiet ==
  /\ Turn /\ \A t \in Tasks : pc[t] = "idle"
  /\ pc["shutdown"] \in {"idle", "done"}
  /\ ~rested /\ 0 < spent /\ spent < Budget
  /\ rested' = TRUE
  /\ \E d \in QuietGaps : Pass(d)
  /\ UNCHANGED <<client, last, evt_52, notify_count, last_notify_len, lockVars,
                 linkVars, envVars, ctlVars, result, histVars>>

\* the awaits at which the host cancels a coroutine of the session: the wait
\* for a notification of _poll_for_52 and the two awaits of disconnect
CancelPcs == {"pf_wait", "dc_stop_notify", "dc_close"}

\* CancelledError, a BaseException, leaves poll_status or set_on: neither
\* "except asyncio.TimeoutError" nor "except Exception" catches it, "async
\* with" releases the lock and the caller gets the cancellation
Cancelled(t) ==
  /\ pc' = [pc EXCEPT ![t] = "idle"]
  /\ stack' = [stack EXCEPT ![t] = <<>>]
  /\ lock' = "none"
  /\ result' = [by |-> t, status |-> "cancelled", value |-> Parsed,
                path |-> "none", err |-> "CancelledError", on |-> loc[t].on,
                last0 |-> loc[t].last0, fresh |-> fresh52]
  /\ loc' = [loc EXCEPT ![t] = LocInit]

\* the host cancels the coroutine of p while it is suspended at one of these
\* awaits; a cancelled disconnect skips "self._client = None"
Cancel(p) ==
  /\ pc[p] \in CancelPcs /\ Turn
  /\ spent < Budget
  /\ spent' = spent + 1
  /\ IF p \in Tasks
       THEN Cancelled(p)
       ELSE /\ pc' = [pc EXCEPT ![p] = "done"]
            /\ stack' = [stack EXCEPT ![p] = <<>>]
            /\ loc' = [loc EXCEPT ![p] = LocInit]
            /\ UNCHANGED <<lock, result>>
  /\ UNCHANGED <<sessVars, waiters, linkVars, visible, rested, histVars>>

(* --------------------------- the specification ------------------------- *)
SessionStep(p) ==
  \/ Disconnect(p) \/ DcStopNotify(p) \/ DcClose(p)

TaskStep(t) ==
  \/ Begin(t) \/ LockWake(t) \/ OpReturn(t)
  \/ Connect(t) \/ WaitDevice(t) \/ WaitDeviceSleep(t)
  \/ Establish(t) \/ EstablishFail(t) \/ StartNotify(t)
  \/ Ensure(t) \/ EnsureConnect(t) \/ EnsureRet(t)
  \/ ReadEmpty(t) \/ (\E b \in StatusFrames : ReadStatus(t, b))
  \/ PfWrite(t) \/ PfWriteFail(t) \/ PfWait(t)
  \/ PsBegin(t) \/ PsRead1(t) \/ PsLoop(t) \/ PsExcept(t)
  \/ PsExceptEnsure(t) \/ PsContinue(t) \/ PsSleep(t)
  \/ PsWatchdog(t) \/ PsWatchdogEnsure(t) \/ PsEnd(t)
  \/ SoBegin(t) \/ SoCmd(t) \/ SoWrite(t) \/ SoWriteFail(t) \/ SoWriteFailed(t)
  \/ SoWriteFailedEnsure(t) \/ SoRetry(t) \/ SoSettling(t)
  \/ SoLoop(t) \/ SoExcept(t) \/ SoExceptEnsure(t) \/ SoExceptRead(t)
  \/ SoSleep(t) \/ SoOptimistic(t)

Environment ==
  \/ \E h \in Handles, b \in Payloads : Notify(h, b)
  \/ \E h \in Handles : LinkDrop(h)
  \/ Advertise
  \/ Quiet

Next ==
  \/ \E t \in Tasks : TaskStep(t)
  \/ \E p \in Procs : SessionStep(p)
  \/ Shutdown
  \/ \E p \in Procs : Cancel(p)
  \/ Environment

Spec == Init /\ [][Next]_vars

\* the event loop runs every coroutine that can run: each transport call
\* returns and each timed wait ends, so a caller or a teardown that can take
\* a step is not passed over for ever
Fairness ==
  /\ \A t \in Tasks : WF_vars(TaskStep(t) \/ SessionStep(t))
  /\ WF_vars(SessionStep("shutdown"))

FairSpec == Spec /\ Fairness

(* ------------------- the frame decoder on its own ---------------------- *)
\* 52 zero bytes: a status frame without the sync marker
Zero52 == [i \in 1..FRAME52 |-> 0]

\* frame f with the sync marker written at offset o and the pair b1, b2 at
\* offsets o + 4 and o + 5
MarkerAt(f, o, b1, b2) ==
  [f EXCEPT ![o + 1] = 165, ![o + 2] = 5, ![o + 5] = b1, ![o + 6] = b2]

\* the two known flag pairs, three unknown ones, the marker itself as a pair
FlagPairs == {<<1, 115>>, <<2, 239>>, <<6, 30>>, <<1, 239>>, <<165, 5>>}

\* offsets of the marker, the last two (45, 46) being the last that leave
\* room for the pair inside the frame
MarkerOffsets == {0, 20, 40, 45, 46}
MarkerOffsetPairs == {<<0, 10>>, <<20, 40>>, <<40, 46>>}

OneMarker ==
  {MarkerAt(Zero52, o, q[1], q[2]) : o \in MarkerOffsets, q \in FlagPairs}

TwoMarkers ==
  {MarkerAt(MarkerAt(Zero52, oo[2], q2[1], q2[2]), oo[1], q1[1], q1[2]) :
     oo \in MarkerOffsetPairs, q1 \in FlagPairs, q2 \in FlagPairs}

\* raw 16-bit temperatures around the limits -400, 800, 2500 and the sign
TempRaws == {65135, 65136, 0, 800, 801, 2500, 2501, 32767, 32768}
TempFrames == {MkFrame(1, 115, r, h) : r \in TempRaws, h \in TempRaws}

\* a status frame one byte short
Short51 == SubSeq(FrameOn, 1, FRAME52 - 1)

CodecFrames ==
  OneMarker \cup TwoMarkers \cup TempFrames \cup {Zero52, Idle8, Short51}

\* a session whose link is established and subscribed, no frame received yet
CodecInit ==
  /\ client = 1
  /\ lock = "none"
  /\ waiters = <<>>
  /\ last = Parsed
  /\ evt_52 = FALSE
  /\ notify_count = 0
  /\ last_notify_len = <<>>
  /\ ago_any = None
  /\ ago_52 = None
  /\ ago_8 = None
  /\ hstate = [h \in Handles |-> IF h = 1 THEN "open" ELSE "unused"]
  /\ is_connected = [h \in Handles |-> h = 1]
  /\ notifying = [h \in Handles |-> h = 1]
  /\ subs = [h \in Handles |-> IF h = 1 THEN 1 ELSE 0]
  /\ visible = TRUE
  /\ spent = 0
  /\ rested = FALSE
  /\ pc = [p \in Procs |-> "idle"]
  /\ stack = [p \in Procs |-> <<>>]
  /\ loc = [p \in Procs |-> LocInit]
  /\ result = NoResult
  /\ fresh52 = FALSE
  /\ exhaustions = 0

\* the callback decodes the first frame the link delivers
CodecNext == \E b \in CodecFrames : notify_count = 0 /\ Notify(1, b)

CodecSpec == CodecInit /\ [][CodecNext]_vars

(* ------------------------------ properties ----------------------------- *)
\* task t is inside the "async with self._lock" block of its call
InSection(t) == pc[t] \notin {"idle", "lock_wait"}

\* process p is awaiting stop_notify or disconnect of a link
Tearing(p) == pc[p] \in {"dc_stop_notify", "dc_close"}

Live == client # NoClient /\ is_connected[client]

\* the step in which a call of poll_status or set_on ends with an exception
RaiseStep == result' # result /\ result'.status = "raised"

\* C1: at most one of poll_status and set_on is inside its locked section,
\* and it owns the lock; the other caller waits at the lock and touches
\* nothing
C1_OneOperation ==
  \A t \in Tasks :
    InSection(t) => lock = t /\ \A u \in Tasks \ {t} : ~InSection(u)

\* a second caller waits at the lock while the first awaits a notification
C1_Witness ==
  \E t \in Tasks, u \in Tasks :
    t # u /\ pc[t] = "pf_wait" /\ pc[u] = "lock_wait" /\ lock = t

\* C2: whoever tears the link down holds the session lock, the shutdown's
\* disconnect included
C2_TeardownUnderLock == \A p \in Procs : Tearing(p) => lock = p

\* C3: every open link is the one the session references, so at most one
\* link is open and none is leaked
C3_SingleLink ==
  /\ Cardinality({h \in Handles : hstate[h] = "open"}) <= 1
  /\ \A h \in Handles : hstate[h] = "open" => client = h

\* C4: _ensure on a live handle returns that handle and makes no connect
\* and no subscribe; no link is ever subscribed twice
C4_EnsureIdempotent ==
  [][/\ \A t \in Tasks :
          (pc[t] = "ensure" /\ pc'[t] # "ensure" /\ Live) =>
             /\ pc'[t] = Head(stack[t])
             /\ loc'[t].c = client
             /\ client' = client /\ hstate' = hstate /\ subs' = subs
     /\ \A h \in Handles : subs'[h] <= 1]_vars

\* after an exhausted poll, the _ensure of the next call has returned the
\* handle of the first: one link established and one subscription in all
C4_Witness ==
  /\ pc["cmd"] = "so_cmd" /\ exhaustions = 1
  /\ loc["cmd"].c = client /\ client # NoClient
  /\ Cardinality({h \in Handles : hstate[h] # "unused"}) = 1
  /\ subs[client] = 1

C7_ReturnsRequested ==
  (result.by = "cmd" /\ result.status = "returned")
    => result.value.is_on = <<result.on>>

\* set_on has returned by the optimistic path
C7_Witness ==
  /\ result.by = "cmd" /\ result.status = "returned"
  /\ result.path = "optimistic" /\ result.value.is_on = <<result.on>>

\* C8: the value of a set_on that ended by the optimistic path carries a
\* flag saying so
C8_UnconfirmedFlag ==
  (result.by = "cmd" /\ result.status = "returned"
     /\ result.path = "optimistic")
    => "unconfirmed" \in DOMAIN result.value

\* an idle frame came after the command write of t, within the window
IdleSinceCmd(t) ==
  /\ ago_8 # None /\ loc[t].cmd_ago # None
  /\ ago_8 <= loc[t].cmd_ago
  /\ loc[t].cmd_ago - ago_8 <= IDLE_AFTER_OFF_CONFIRM_SEC

OneLinkEver == Cardinality({h \in Handles : hstate[h] # "unused"}) = 1

\* C11 as claimed: when the last notification of any kind is more than 25 s
\* old as a poll cycle begins, that cycle rebuilds the link before it writes
\* a poll request; no poll request of it goes out on the silent link
C11_TeardownBeforePolling ==
  ~(/\ pc["poll"] = "pf_wait" /\ loc["poll"].elapsed = 0
    /\ ago_any # None /\ ago_any > NO_NOTIFY_RECONNECT_SEC
    /\ loc["poll"].c = client /\ LinkOk(client) /\ OneLinkEver)

\* C11 as amended: the silence is looked at only when a poll cycle has used
\* up its attempts without a status frame; if the last notification is then
\* more than 25 s old the cycle closes the link its poll requests were
\* written on and sets up another before it returns, so that the requests
\* of the next cycle go out on a new link
C11_TeardownAfterExhaustion ==
  /\ pc["poll"] = "ps_wd_ens"
       => (/\ loc["poll"].c # NoClient /\ hstate[loc["poll"].c] = "closed"
           /\ client # loc["poll"].c)
  /\ (/\ pc["poll"] = "ps_end"
      /\ ago_any # None /\ ago_any > NO_NOTIFY_RECONNECT_SEC)
       => (/\ \E h \in Handles : h # client /\ hstate[h] = "closed"
           /\ \A h \in Handles : hstate[h] = "open" => h = client
           /\ client # NoClient => hstate[client] = "open"
           /\ pc["shutdown"] = "idle" => client # NoClient)

\* the exhausted poll is about to return after the silent link was replaced
C11_Witness ==
  /\ pc["poll"] = "ps_end"
  /\ ago_any # None /\ ago_any > NO_NOTIFY_RECONNECT_SEC
  /\ \E h \in Handles : h # client /\ hstate[h] = "closed"
  /\ LinkOk(client) /\ notifying[client]

\* C12: a cancellation that reaches poll_status or set_on while it waits for
\* a notification is taken as a timeout of that wait: the call goes on and
\* later returns the last-known status; the step that leaves the wait never
\* ends the call with the cancellation handed to the caller
C12_CancelLikeTimeout ==
  [][\A t \in Tasks :
       (pc[t] = "pf_wait" /\ pc'[t] # "pf_wait")
         => /\ pc'[t] # "idle"
            /\ ~(result' # result /\ result'.status = "cancelled")]_vars

\* C13: every call of poll_status and set_on that has begun, waiting at the
\* lock included, comes to an end (returns, raises or is cancelled) with the
\* lock no longer held by it
C13_CallsComplete ==
  \A t \in Tasks : (pc[t] # "idle") ~> (pc[t] = "idle" /\ lock # t)

\* a call that no notification ever answered has come to its end by its
\* deadline, and the lock is free
C13_Witness ==
  /\ result.status = "returned" /\ result.path \in {"exhausted", "optimistic"}
  /\ notify_count = 0 /\ result.value.raw52 = <<>>
  /\ lock = "none" /\ \A t \in Tasks : pc[t] = "idle"

\* the labels of disconnect()
DcPcs == {"disconnect", "dc_stop_notify", "dc_close"}

\* C14: by whatever path disconnect() ends (its awaits done, an error of
\* stop_notify or of the close swallowed, or a cancellation while it awaits
\* them) the session's handle is null afterwards, and the end of disconnect
\* hands no error to its caller
C14_DisconnectNullsHandle ==
  [][\A p \in Procs :
       (pc[p] \in DcPcs /\ pc'[p] \notin DcPcs)
         => (client' = NoClient /\ result' = result)]_vars

\* what the caller of the last returned call reads in the status it was
\* given: "return self._last" hands back the session's one Parsed object,
\* created in __init__ and written in place ever after, so the caller reads
\* the fields as they are now
HeldStatus == last

\* C15: the status a call has returned keeps the fields it had when it was
\* returned, whatever notification, read or optimistic commit comes later
C15_ReturnedStatusImmutable ==
  result.status = "returned" => HeldStatus = result.value

\* C16: the power flag published for a 52-byte frame is the one of the flag
\* pair at offsets +4/+5 of the first sync marker (0xA5,0x05) of the frame:
\* (0x01,0x73) on, (0x02,0xEF) off, any other pair there None; None too when
\* the frame holds no marker
C16_FirstMarkerDecides ==
  last.raw52 # <<>> =>
    LET p == last.raw52
        M == {i \in 0..(Len(p) - 6) : Byte(p, i) = 165 /\ Byte(p, i + 1) = 5}
        first == CHOOSE i \in M : \A k \in M : i <= k
    IN  last.is_on =
          IF M = {} THEN <<>>
          ELSE IF Byte(p, first + 4) = 1 /\ Byte(p, first + 5) = 115
                 THEN <<TRUE>>
          ELSE IF Byte(p, first + 4) = 2 /\ Byte(p, first + 5) = 239
                 THEN <<FALSE>>
          ELSE <<>>

\* C17: the published room temperature is None or within [-400, 800] tenths
\* of a degree, the heater temperature None or within [-400, 2500]; each is
\* the signed 16-bit value of the frame when that lies in its range and None
\* when it does not
C17_TemperaturesInRange ==
  /\ last.room_c # <<>> => (-400 <= last.room_c[1] /\ last.room_c[1] <= 800)
  /\ last.heater_c # <<>>
       => (-400 <= last.heater_c[1] /\ last.heater_c[1] <= 2500)
  /\ last.raw52 # <<>> =>
       LET p == last.raw52
           S(lo, hi) == IF hi >= 128 THEN lo + 256 * hi - 65536
                        ELSE lo + 256 * hi
           room == S(p[15], p[16])
           heater == S(p[17], p[18])
       IN  /\ last.room_c =
                (IF -400 <= room /\ room <= 800 THEN <<room>> ELSE <<>>)
           /\ last.heater_c =
                (IF -400 <= heater /\ heater <= 2500 THEN <<heater>> ELSE <<>>)

\* a frame with the room value 80.1 C and the heater value 250.0 C was
\* decoded: the room temperature is None, the heater temperature published
C17_Witness ==
  /\ last.raw52 # <<>>
  /\ _s16le(last.raw52, 14) = 801 /\ last.room_c = <<>>
  /\ _s16le(last.raw52, 16) = 2500 /\ last.heater_c = <<2500>>

\* C18: when poll_status looks for an idle frame at the head of an attempt
\* (an attempt is left and the deadline not reached) or after a poll round
\* that brought no status frame, and an 8-byte frame has arrived since the
\* call began and no more than 1.0 s ago, the call returns the last-known
\* status at once: that step writes nothing, touches no link and leads to
\* the return by the idle path
C18_IdleFastReturn ==
  [][LET t == "poll"
         AtHead == /\ pc[t] = "ps_loop" /\ loc[t].attempt <= POLL_ATTEMPTS
                   /\ loc[t].elapsed < OP_TIMEOUT
                   /\ ago_8 # None /\ ago_8 <= loc[t].elapsed
                   /\ ago_8 <= IDLE_NOTIFY_FAST_RETURN_SEC
         AfterRound == /\ pc[t] = "pf_wait" /\ Head(stack[t]) = "ps_polled"
                       /\ pc'[t] \notin {"pf_wait", "pf_write", "idle"}
                       /\ ~evt_52
                       /\ ago_8' # None /\ ago_8' <= loc'[t].elapsed
                       /\ ago_8' <= IDLE_NOTIFY_FAST_RETURN_SEC
     IN  ((AtHead /\ pc'[t] # "ps_loop") \/ AfterRound)
           => /\ pc'[t] = "op_return" /\ loc'[t].path = "idle"
              /\ client' = client /\ hstate' = hstate /\ last' = last]_vars

\* poll_status has returned by the idle short cut after a poll round that
\* an 8-byte frame answered
C18_Witness ==
  /\ result.by = "poll" /\ result.status = "returned" /\ result.path = "idle"
  /\ ago_8 # None /\ ago_8 <= IDLE_NOTIFY_FAST_RETURN_SEC
  /\ last_notify_len = <<FRAME8>>

\* C19: a step of the notification callback leaves the link handle, the
\* lock and its queue, every link and every coroutine as they are (it does
\* no link I/O); it changes the stored status and the wait signal only for
\* a 52-byte frame, and then to the decoded frame and to "set"
C19_CallbackEffects ==
  [][notify_count' # notify_count =>
       /\ notify_count' = notify_count + 1
       /\ client' = client /\ lock' = lock /\ waiters' = waiters
       /\ hstate' = hstate /\ is_connected' = is_connected
       /\ notifying' = notifying /\ subs' = subs
       /\ pc' = pc /\ stack' = stack /\ loc' = loc /\ result' = result
       /\ ago_any' = 0
       /\ IF last_notify_len' = <<FRAME52>>
            THEN /\ last'.raw52 # <<>> /\ Len(last'.raw52) = FRAME52
                 /\ evt_52' /\ ago_52' = 0 /\ ago_8' = ago_8
            ELSE /\ last' = last /\ evt_52' = evt_52
                 /\ ago_52' = ago_52]_vars

\* an 8-byte frame has arrived while poll_status waits for a status frame:
\* the wait signal is not set and the stored status is the one of before
C19_Witness ==
  /\ pc["poll"] = "pf_wait" /\ last_notify_len = <<FRAME8>>
  /\ ago_8 = 0 /\ ~evt_52 /\ notify_count > 0
  /\ last = loc["poll"].last0

\* poll_status is in the except clause of an attempt, or in the disconnect
\* or the _ensure called from it
Recovering(t) ==
  \/ pc[t] \in {"ps_except", "ps_except_ens", "ps_continue"}
  \/ stack[t] # <<>> /\ stack[t][Len(stack[t])] \in {"ps_except_ens",
                                                      "ps_continue"}

\* C20: a poll-request write that raises inside an attempt of poll_status
\* is caught: the call closes the link the write failed on, calls _ensure,
\* and goes on to the next attempt on the handle _ensure returned, the
\* failed attempt counted; from there the call raises only when the device
\* is not found or the connection cannot be established
C20_WriteErrorRecovered ==
  [][LET t == "poll" IN
     /\ (/\ pc[t] = "pf_write" /\ Head(stack[t]) = "ps_polled"
         /\ pc'[t] \notin {"pf_write", "pf_wait"})
          => /\ pc'[t] = "ps_except" /\ result' = result /\ lock' = t
     /\ (pc[t] = "ps_except" /\ pc'[t] # "ps_except")
          => pc'[t] = "disconnect"
     /\ (pc[t] = "ps_except_ens" /\ pc'[t] # "ps_except_ens")
          => /\ pc'[t] = "ensure"
             /\ loc[t].c # NoClient => hstate[loc[t].c] = "closed"
     /\ (Recovering(t) /\ result' # result /\ result'.status = "raised")
          => /\ pc[t] \notin {"ps_except", "ps_except_ens", "ps_continue"}
             /\ result'.err \in {"BleakNotFoundError", "ConnectFailed"}
     /\ (pc[t] # "ps_continue" /\ pc'[t] = "ps_continue")
          => /\ client' # NoClient /\ loc'[t].c = client'
             /\ hstate'[client'] = "open"
     /\ (pc[t] = "ps_continue" /\ pc'[t] # "ps_continue")
          => /\ pc'[t] = "ps_loop"
             /\ loc'[t].attempt = loc[t].attempt + 1
             /\ loc'[t].c = loc[t].c]_vars

\* set_on is in the except clause of its command write, or in the
\* disconnect or the _ensure called from it
InCmdRecovery(t) ==
  \/ pc[t] \in {"so_wfail", "so_wfail_ens", "so_retry"}
  \/ stack[t] # <<>> /\ stack[t][Len(stack[t])] \in {"so_wfail_ens",
                                                      "so_retry"}

\* the command write of t raises in this step
CmdWriteFails(t) ==
  pc[t] = "so_write" /\ pc'[t] \notin {"so_write", "so_settling", "so_loop"}

\* C21 as claimed: a failed command write is always followed by the
\* teardown, the reconnect and the one retried write: no exception leaves
\* set_on between the failed write and the retry; a failed retry raises
\* with the lock released and the stored status untouched
C21_RetryAlwaysFollows ==
  [][\A t \in Tasks :
       /\ (CmdWriteFails(t) /\ ~loc[t].retry)
            => pc'[t] = "so_wfail" /\ result' = result
       /\ InCmdRecovery(t)
            => ~(result' # result /\ result'.by = t
                   /\ result'.status = "raised")
       /\ (CmdWriteFails(t) /\ loc[t].retry)
            => /\ result'.status = "raised" /\ result'.err = "WriteFailed"
               /\ lock' = "none" /\ last' = last]_vars

\* C21 as amended: a failed command write is followed by one disconnect and
\* one _ensure; when _ensure returns, the same command is written once more
\* on the handle it returned, and an exception leaves set_on from there only
\* out of _ensure; a failed retry is not caught: it raises with the lock
\* released and the stored status untouched
C21_OneReconnectOneRetry ==
  [][\A t \in Tasks :
       /\ (CmdWriteFails(t) /\ ~loc[t].retry)
            => pc'[t] = "so_wfail" /\ result' = result /\ lock' = lock
       /\ (pc[t] = "so_wfail" /\ pc'[t] # "so_wfail")
            => pc'[t] = "disconnect"
       /\ (pc[t] = "so_wfail_ens" /\ pc'[t] # "so_wfail_ens")
            => pc'[t] = "ensure" /\ client = NoClient
       /\ (InCmdRecovery(t) /\ result' # result /\ result'.by = t
             /\ result'.status = "raised")
            => /\ pc[t] \notin {"so_wfail", "so_wfail_ens", "so_retry"}
               /\ result'.err \in {"BleakNotFoundError", "ConnectFailed",
                                   "AssertionError"}
       /\ (pc[t] # "so_retry" /\ pc'[t] = "so_retry")
            => client' # NoClient /\ loc'[t].c = client'
       /\ (pc[t] = "so_retry" /\ pc'[t] # "so_retry")
            => /\ pc'[t] = "so_write" /\ loc'[t].retry
               /\ loc'[t].on = loc[t].on /\ loc'[t].c = loc[t].c
       /\ (CmdWriteFails(t) /\ loc[t].retry)
            => /\ result'.by = t /\ result'.status = "raised"
               /\ result'.err = "WriteFailed"
               /\ lock' = "none" /\ pc'[t] = "idle" /\ last' = last]_vars

\* the retried command write has succeeded on the handle set up after the
\* first write failed
C21_Witness ==
  \E t \in Tasks :
    /\ pc[t] = "so_settling" /\ loc[t].retry /\ loc[t].cmd_ago = 0
    /\ loc[t].c = client /\ LinkOk(client)
    /\ \E h \in Handles : h # client /\ hstate[h] = "closed"

\* poll_status is inside _poll_for_52: a poll request is being written or
\* its answer waited for
Polling(t) ==
  pc[t] \in {"pf_write", "pf_wait"} /\ Head(stack[t]) = "ps_polled"

\* C22: poll_status is inside _poll_for_52 only in its attempts 1 to 3;
\* each request/wait cycle begins with the event cleared, and the event is
\* set again only by the callback for a 52-byte frame, so the wait that
\* succeeds has seen a status frame delivered after the clear; the write
\* with response is made only out of a wait of the write without response
\* that ran to its timeout with the event unset
C22_AttemptsAndClear ==
  [][LET t == "poll" IN
     /\ Polling(t)' => (1 <= loc'[t].attempt /\ loc'[t].attempt <= POLL_ATTEMPTS)
     /\ (Polling(t)' /\ pc'[t] = "pf_write"
           /\ (pc[t] # "pf_write" \/ ~Polling(t)))
          => ~evt_52'
     /\ (evt_52' /\ ~evt_52)
          => (notify_count' = notify_count + 1
                /\ last_notify_len' = <<FRAME52>>)
     /\ (Polling(t) /\ pc[t] = "pf_wait" /\ loc'[t].path = "notify52")
          => (evt_52 /\ ago_52 = 0 /\ last.raw52 # <<>>)
     /\ (Polling(t)' /\ pc'[t] = "pf_write" /\ loc'[t].resp)
          => \/ (pc[t] = "pf_write" /\ loc[t].resp)
             \/ (/\ Polling(t) /\ pc[t] = "pf_wait" /\ ~loc[t].resp
                 /\ ~evt_52 /\ loc[t].wait_left > 0
                 /\ loc'[t].pf_elapsed = loc[t].pf_elapsed + loc[t].wait_left)
     /\ (Polling(t)' /\ pc'[t] = "pf_write" /\ ~loc'[t].resp
           /\ pc[t] # "pf_write")
          => pc[t] = "ps_loop"]_vars

\* the third attempt of poll_status has got its status frame in the wait
\* that follows the write with response
C22_Witness ==
  /\ Polling("poll") /\ pc["poll"] = "pf_wait"
  /\ loc["poll"].attempt = POLL_ATTEMPTS /\ loc["poll"].resp
  /\ evt_52 /\ ago_52 = 0

\* C23: a caller that does link I/O on the handle _ensure gave it (a read,
\* a poll request, a command, a wait for a status frame) has the
\* notification callback subscribed on that handle while the link is up
C23_SubscribedWhenInUse ==
  \A t \in Tasks :
    (/\ pc[t] \in {"read_io", "pf_write", "pf_wait", "so_write"}
     /\ LinkOk(loc[t].c))
      => notifying[loc[t].c]

\* set_on is about to hand back a value it reports as confirmed
ConfirmedReturn ==
  /\ pc["cmd"] = "op_return"
  /\ loc["cmd"].path \in {"matched", "idle", "notify52", "read"}

\* a status frame received since the command write of this call
Status52SinceCmd ==
  /\ ago_52 # None /\ loc["cmd"].cmd_ago # None
  /\ ago_52 <= loc["cmd"].cmd_ago

\* an idle frame received since the command write of this call
Idle8SinceCmd ==
  /\ ago_8 # None /\ loc["cmd"].cmd_ago # None
  /\ ago_8 <= loc["cmd"].cmd_ago

SilenceReconnectDone ==
  pc["poll"] = "ensure_ret" /\ pc'["poll"] = "ps_end"

\* C25: a silence-triggered reconnect restarts the silence measurement: when
\* poll_status has rebuilt the link because of notification silence, the
\* silence it measures is no longer above the 25 s ceiling, so that a
\* following poll_status forces another reconnect only after a further full
\* ceiling has elapsed
C25_ReconnectRestartsSilence ==
  [][SilenceReconnectDone => ~SilentTooLong']_vars

====
